---- MODULE Spec2Model ----
(***************************************************************************)
(* Power - battery widget add-on for a flashcard application.              *)
(*                                                                         *)
(* src/__init__.py : path shim, psutil import fallback, get_battery_info,  *)
(*                   hex_to_rgba, add_battery_widget, hook registration.   *)
(* src/settings.py : SettingsDialog (radio buttons, colour pickers,        *)
(*                   opacity slider, save_settings).                       *)
(*                                                                         *)
(* Text values (colours, platform names) are sequences of one-character    *)
(* strings so that lstrip, len, slicing and startswith are computed the    *)
(* way the Python code computes them.                                      *)
(***************************************************************************)
EXTENDS Integers, Sequences, FiniteSets, TLC

VARIABLES
    platform,        \* sys.platform, a sequence of characters
    is64,            \* sys.maxsize > 2**32
    sys_path,        \* sys.path, a sequence of folders
    pc,              \* position in the module-level code of __init__.py
    psutil_available,\* __init__.py:43
    render_hooks,    \* gui_hooks.deck_browser_will_render_content
    menu_actions,    \* mw.form.menuTools actions: <<text, slot>>
    warnings,        \* number of showWarning calls so far
    stored,          \* the host's settings store for this add-on
    write_count,     \* number of addonManager.writeConfig calls so far
    dlg,             \* the SettingsDialog object (last one constructed)
    night_mode,      \* theme_manager.night_mode
    render           \* the deck-browser render last made: content.stats before/after

vars == <<platform, is64, sys_path, pc, psutil_available, render_hooks,
          menu_actions, warnings, stored, write_count, dlg, night_mode,
          render>>

(***************************************************************************)
(* Generic helpers                                                         *)
(***************************************************************************)
Min(a, b) == IF a < b THEN a ELSE b
Max(a, b) == IF a > b THEN a ELSE b

\* Python s[i:j] with 0-based i, j (0 <= i <= j), clipped to the length.
Slice(s, i, j) == SubSeq(s, i + 1, Min(j, Len(s)))

\* Python "x in list"
InSeq(x, s) == \E i \in 1..Len(s) : s[i] = x

\* Python list.insert(0, x)
Insert0(s, x) == <<x>> \o s

\* Python str.startswith
StartsWith(s, p) == Len(s) >= Len(p) /\ SubSeq(s, 1, Len(p)) = p

\* Python dict.get(key, default) on a dict modelled as a function
Get(cfg, key, default) == IF key \in DOMAIN cfg THEN cfg[key] ELSE default

\* Python d[key] = value
Put(cfg, key, value) ==
    [k \in (DOMAIN cfg) \cup {key} |-> IF k = key THEN value ELSE cfg[k]]

EmptyDict == [k \in {} |-> 0]

(***************************************************************************)
(* Python values that are not booleans or numbers only.                    *)
(* A tri-state value ("True", "False", "None") models psutil's             *)
(* power_plugged, which is None when the state cannot be determined.       *)
(***************************************************************************)
TriState == {"True", "False", "None"}
Truthy(x) == x = "True"
\* Python "a and b" where a is a bool: the first falsy operand, else b
PyAnd(a, b) == IF a THEN b ELSE "False"

\* battery.secsleft: an integer number of seconds, or None
NoSecs == [none |-> TRUE, val |-> 0]
Secs(n) == [none |-> FALSE, val |-> n]

(***************************************************************************)
(* IEEE-754 binary64 arithmetic for the one float expression whose exact   *)
(* value reaches the output: ((percent - lower_bound) / 20) * 100          *)
(* (__init__.py:284).  A positive double is [m, e]: m is the 53-bit        *)
(* significand, most significant bit first, and e the exponent of m[1].    *)
(***************************************************************************)
MantBits == 53

RECURSIVE NormShift(_, _, _)
\* least k >= 0 with x * 2^k >= d, for 0 < x
NormShift(x, d, k) == IF x >= d THEN k ELSE NormShift(2 * x, d, k + 1)

RECURSIVE Pow2(_)
Pow2(n) == IF n = 0 THEN 1 ELSE 2 * Pow2(n - 1)

RECURSIVE DivRem(_, _, _)
\* the remainder of long division of n by d after j further quotient bits:
\* (n * 2^j) mod d
DivRem(n, d, j) == IF j = 0 THEN n % d ELSE (2 * DivRem(n, d, j - 1)) % d

\* the first MantBits quotient bits of n / d, for d <= n < 2d
DivBits(n, d) ==
    [i \in 1..MantBits |->
        IF i = 1 THEN n \div d ELSE (2 * DivRem(n, d, i - 2)) \div d]

AllOnes(b) == \A i \in 1..Len(b) : b[i] = 1

\* bits + 1 as a bit string of the same length (all ones wraps to all zeros):
\* a bit flips exactly when every bit after it is 1
IncBits(b) ==
    [i \in 1..Len(b) |->
        IF \A j \in (i + 1)..Len(b) : b[j] = 1 THEN 1 - b[i] ELSE b[i]]

\* round-half-to-even of a significand given the guard bit and the sticky bit
RoundBits(m, e, guard, sticky) ==
    IF guard = 1 /\ (sticky \/ m[Len(m)] = 1)
    THEN IF AllOnes(m)
         THEN [m |-> [i \in 1..Len(m) |-> IF i = 1 THEN 1 ELSE 0], e |-> e + 1]
         ELSE [m |-> IncBits(m), e |-> e]
    ELSE [m |-> m, e |-> e]

\* float(x) / float(d) for integers 0 < x < d, correctly rounded
FloatDiv(x, d) ==
    LET k    == NormShift(x, d, 0)
        n0   == x * Pow2(k)
        r    == DivRem(n0, d, MantBits - 1)
        \* the discarded tail is r/d of one unit in the last place
        g    == IF 2 * r >= d THEN 1 ELSE 0
        st   == (2 * r) % d # 0
    IN  RoundBits(DivBits(n0, d), 0 - k, g, st)

RECURSIVE IntBits(_)
\* the binary digits of a positive integer, most significant first
IntBits(n) == IF n = 0 THEN <<>> ELSE IntBits(n \div 2) \o <<n % 2>>

RECURSIVE MulCarry(_, _, _)
\* the carry out of bit position i when the bit string b is multiplied by the
\* small integer c, least significant bit first
MulCarry(b, c, i) ==
    IF i > Len(b) THEN 0 ELSE (b[i] * c + MulCarry(b, c, i + 1)) \div 2

\* the bit string b times c, exactly
MulBits(b, c) ==
    IntBits(MulCarry(b, c, 1))
    \o [i \in 1..Len(b) |-> (b[i] * c + MulCarry(b, c, i + 1)) % 2]

\* f * float(c) for a small positive integer c, correctly rounded
FloatMul(f, c) ==
    LET p     == MulBits(f.m, c)
        extra == Len(p) - MantBits
        top   == SubSeq(p, 1, MantBits)
        g     == IF extra >= 1 THEN p[MantBits + 1] ELSE 0
        st    == \E i \in (MantBits + 2)..Len(p) : p[i] = 1
    IN  RoundBits(top, f.e + extra, g, st)

\* float(n) for a positive integer n < 2^53
FloatOfInt(n) ==
    LET b == IntBits(n)
    IN  [m |-> b \o [i \in 1..(MantBits - Len(b)) |-> 0], e |-> Len(b) - 1]

\* f as a distance from the integer n in units in the last place: 0 exactly
\* when f == float(n), 1 or -1 when f is the double next above or below it, and
\* 2^20 when it is further away
UlpsFrom(f, n) ==
    LET t == FloatOfInt(n)
    IN  IF f = t THEN 0
        ELSE IF f.e = t.e /\ ~AllOnes(t.m) /\ f.m = IncBits(t.m) THEN 1
        ELSE IF f.e = t.e /\ ~AllOnes(f.m) /\ t.m = IncBits(f.m) THEN 0 - 1
        ELSE IF f.e = t.e - 1 /\ AllOnes(f.m) /\ (\A i \in 2..MantBits : t.m[i] = 0)
             THEN 0 - 1
        ELSE Pow2(20)

(***************************************************************************)
(* Colour texts                                                            *)
(***************************************************************************)
HexDigits == {"0","1","2","3","4","5","6","7","8","9",
              "a","b","c","d","e","f","A","B","C","D","E","F"}

HexDigitVal(c) ==
    CASE c = "0" -> 0  [] c = "1" -> 1  [] c = "2" -> 2  [] c = "3" -> 3
      [] c = "4" -> 4  [] c = "5" -> 5  [] c = "6" -> 6  [] c = "7" -> 7
      [] c = "8" -> 8  [] c = "9" -> 9
      [] c \in {"a", "A"} -> 10  [] c \in {"b", "B"} -> 11
      [] c \in {"c", "C"} -> 12  [] c \in {"d", "D"} -> 13
      [] c \in {"e", "E"} -> 14  [] c \in {"f", "F"} -> 15

\* colour texts that occur as defaults in the source
C_ffffff == <<"#","f","f","f","f","f","f">>
C_000000 == <<"#","0","0","0","0","0","0">>
C_02FF68 == <<"#","0","2","F","F","6","8">>
C_9ca3af == <<"#","9","c","a","3","a","f">>
C_6b7280 == <<"#","6","b","7","2","8","0">>
C_22c55e == <<"#","2","2","c","5","5","e">>
C_4ade80 == <<"#","4","a","d","e","8","0">>
C_c084fc == <<"#","c","0","8","4","f","c">>
C_a855f7 == <<"#","a","8","5","5","f","7">>
\* further texts a user can type or pick
C_0000ff == <<"#","0","0","0","0","f","f">>
C_ff0000 == <<"#","f","f","0","0","0","0">>
C_f80    == <<"#","f","8","0">>
C_red    == <<"r","e","d">>
C_blue   == <<"b","l","u","e">>
C_bad    == <<"#","1","2">>
C_empty  == <<>>

\* the part of Qt's table of SVG colour names that the model's inputs use
NamedColors == {C_red, C_blue}

\* QColor(text).isValid(): "#" followed by 3, 6, 8, 9 or 12 hex digits, or a
\* colour name
QColorIsValid(t) ==
    \/ /\ Len(t) >= 1
       /\ t[1] = "#"
       /\ (Len(t) - 1) \in {3, 6, 8, 9, 12}
       /\ \A i \in 2..Len(t) : t[i] \in HexDigits
    \/ t \in NamedColors

RECURSIVE LStripHash(_)
\* str.lstrip('#')
LStripHash(t) ==
    IF Len(t) > 0 /\ t[1] = "#" THEN LStripHash(Tail(t)) ELSE t

\* int(s, 16) of a slice of at most two characters: defined for one or two hex
\* digits, ValueError otherwise
IntBase16Ok(s) == Len(s) >= 1 /\ \A i \in 1..Len(s) : s[i] \in HexDigits
IntBase16(s) ==
    IF Len(s) = 1 THEN HexDigitVal(s[1])
    ELSE 16 * HexDigitVal(s[1]) + HexDigitVal(s[2])

Raised == [raised |-> TRUE]

\* hex_to_rgba(hex_color, opacity_percent): the rgba(...) value, alpha kept as
\* the numerator of opacity_percent / 100.0; Raised when int() raises
hex_to_rgba(hex_color, opacity_percent) ==
    LET h0 == LStripHash(hex_color)
        h  == IF Len(h0) = 3
              THEN <<h0[1], h0[1], h0[2], h0[2], h0[3], h0[3]>>
              ELSE h0
        rs == Slice(h, 0, 2)
        gs == Slice(h, 2, 4)
        bs == Slice(h, 4, 6)
    IN  IF IntBase16Ok(rs) /\ IntBase16Ok(gs) /\ IntBase16Ok(bs)
        THEN [raised |-> FALSE, r |-> IntBase16(rs), g |-> IntBase16(gs),
              b |-> IntBase16(bs), alpha100 |-> opacity_percent]
        ELSE Raised

(***************************************************************************)
(* get_battery_info                                                        *)
(*                                                                         *)
(* A sensor reading is NoBattery or a record [percentU, power_plugged,     *)
(* secsleft]; percentU is battery.percent in units of 1/PercentScale, so   *)
(* that fractional percentages are readings too.                           *)
(***************************************************************************)
PercentScale == 2

NoBattery == [present |-> FALSE]
Battery(pu, plugged, secs) ==
    [present |-> TRUE, percentU |-> pu, power_plugged |-> plugged, secsleft |-> secs]

NoInfo == [present |-> FALSE]

\* f"{secs_left / 3600:.1f}" as a number of tenths of an hour (exact unless
\* secs_left / 3600 lies exactly between two tenths)
HoursTenths(secs) == (secs + 180) \div 360

\* secs_left is not None and secs_left > 0
SecsPositive(secs) == ~secs.none /\ secs.val > 0

IsFullyCharged(battery) ==
    PyAnd(battery.percentU = 100 * PercentScale, battery.power_plugged)

\* IconName with "<" for "<=" in the low-battery test
IconNameStrict(battery) ==
    IF Truthy(battery.power_plugged) THEN "battery_bolt"
    ELSE IF battery.percentU < 20 * PercentScale THEN "battery_alert"
    ELSE "battery"

\* __init__.py:120-122, 131-132
IconName(battery) ==
    IF Truthy(battery.power_plugged) THEN "battery_bolt"
    ELSE IF battery.percentU <= 20 * PercentScale THEN "battery_alert"
    ELSE "battery"

StatusText(battery) ==
    IF Truthy(battery.power_plugged) THEN "Charging" ELSE "On Battery"

\* ChargeEstimate without the test for a full battery
ChargeEstimateAlways(battery) == SecsPositive(battery.secsleft)

\* the condition of __init__.py:123
ChargeEstimate(battery) ==
    SecsPositive(battery.secsleft) /\ ~Truthy(IsFullyCharged(battery))

TimeLeftLong(battery) ==
    IF Truthy(battery.power_plugged)
    THEN IF ChargeEstimate(battery)
         THEN [text |-> "hours for full charge",
               tenths |-> HoursTenths(battery.secsleft.val)]
         ELSE [text |-> "Ready to go", tenths |-> 0]
    ELSE IF SecsPositive(battery.secsleft)
         THEN [text |-> "~hours left", tenths |-> HoursTenths(battery.secsleft.val)]
         ELSE [text |-> "No estimate", tenths |-> 0]

TimeLeftCharging(battery) ==
    IF Truthy(battery.power_plugged) /\ ChargeEstimate(battery)
    THEN [text |-> "min left", mins |-> battery.secsleft.val \div 60]
    ELSE [text |-> "", mins |-> 0]

get_battery_info(battery) ==
    IF ~battery.present THEN NoInfo
    ELSE [present |-> TRUE,
          percent |-> battery.percentU \div PercentScale,
          charging |-> battery.power_plugged,
          status_text |-> StatusText(battery),
          time_left_long |-> TimeLeftLong(battery),
          time_left_charging |-> TimeLeftCharging(battery),
          is_fully_charged |-> IsFullyCharged(battery),
          icon_name |-> IconName(battery)]

(***************************************************************************)
(* The configuration mapping and the host's settings store                 *)
(***************************************************************************)
ColorKeys == {"layout1_light_fg", "layout1_dark_fg", "layout2_light_fg",
              "layout2_dark_fg", "layout3_light_fg", "layout3_dark_fg",
              "bg_light_color", "bg_dark_color"}

\* mw.addonManager.getConfig(...) or {}: the store holds None or a mapping, and
\* getConfig builds a new dict on every call
NoConfig == [none |-> TRUE, cfg |-> EmptyDict]
Config(cfg) == [none |-> FALSE, cfg |-> cfg]
GetConfig(st) == IF st.none THEN EmptyDict ELSE st.cfg

(***************************************************************************)
(* add_battery_widget                                                      *)
(***************************************************************************)
\* IsDarkMode without the override of the "light" theme
IsDarkModeNoLight(config, night) ==
    IF Get(config, "theme", "None") = "dark" THEN TRUE ELSE night

\* __init__.py:159-161
IsDarkMode(config, night) ==
    IF Get(config, "theme", "None") = "light" THEN FALSE
    ELSE IF Get(config, "theme", "None") = "dark" THEN TRUE
    ELSE night

\* __init__.py:164-170
BgColorRgba(config, is_dark_mode) ==
    LET opacity      == Get(config, "bg_opacity", 100)
        light_bg_hex == Get(config, "bg_light_color", C_ffffff)
        dark_bg_hex  == Get(config, "bg_dark_color", C_000000)
        base_bg_hex  == IF is_dark_mode THEN dark_bg_hex ELSE light_bg_hex
    IN  hex_to_rgba(base_bg_hex, opacity)

\* bar_color of each layout: __init__.py:201, 276, 309
BarColor(config, layout, is_dark_mode) ==
    CASE layout = "layout1" ->
            IF is_dark_mode THEN Get(config, "layout1_dark_fg", C_02FF68)
            ELSE Get(config, "layout1_light_fg", C_02FF68)
      [] layout = "layout2" ->
            IF is_dark_mode THEN Get(config, "layout2_dark_fg", C_c084fc)
            ELSE Get(config, "layout2_light_fg", C_a855f7)
      [] layout = "layout3" ->
            IF is_dark_mode THEN Get(config, "layout3_dark_fg", C_4ade80)
            ELSE Get(config, "layout3_light_fg", C_22c55e)

NumSegments == 5
SegmentSpan == 20

\* ((percent - lower_bound) / 20) * 100 of __init__.py:284 for each difference
\* x = percent - lower_bound of a partially filled segment, as a distance in
\* units in the last place from the integer x * 100 / 20
PartialWidthUlps ==
    [x \in 1..(SegmentSpan - 1) |->
        UlpsFrom(FloatMul(FloatDiv(x, SegmentSpan), 100), (x * 100) \div SegmentSpan)]

\* SegmentFill with the partial width taken from percent instead of
\* percent - lower_bound
SegmentFillNoOffset(percent, i) ==
    LET lower_bound == i * SegmentSpan
        upper_bound == (i + 1) * SegmentSpan
    IN  IF percent >= upper_bound
        THEN [kind |-> "full", whole |-> 100, ulps |-> 0]
        ELSE IF percent > lower_bound
        THEN [kind |-> "partial", whole |-> (percent * 100) \div SegmentSpan, ulps |-> 0]
        ELSE [kind |-> "none", whole |-> 0, ulps |-> 0]

\* the fill of segment i (0-based) of layout2: __init__.py:282-284.  A width is
\* the float whole + ulps units in the last place; the literal 100 is exact.
SegmentFill(percent, i) ==
    LET lower_bound == i * SegmentSpan
        upper_bound == (i + 1) * SegmentSpan
        x == percent - lower_bound
    IN  IF percent >= upper_bound
        THEN [kind |-> "full", whole |-> 100, ulps |-> 0]
        ELSE IF percent > lower_bound
        THEN [kind |-> "partial", whole |-> (x * 100) \div SegmentSpan,
              ulps |-> PartialWidthUlps[x]]
        ELSE [kind |-> "none", whole |-> 0, ulps |-> 0]

\* segments_html: __init__.py:280-285
SegmentsHtml(percent) == [i \in 1..NumSegments |-> SegmentFill(percent, i - 1)]

\* load_icon(name): the SVG text of the icon file of that name
load_icon(name) == <<"svg", name>>

\* widget_html of the configured layout: __init__.py:200-349; <<>> when the
\* layout is none of the three (widget_html stays "")
WidgetHtml(config, battery_info, is_dark_mode, bg_color_rgba) ==
    LET layout   == Get(config, "layout", "layout1")
        icon_svg == load_icon(battery_info.icon_name)
    IN  CASE layout = "layout1" ->
              <<[id |-> "bw-l1", bg |-> bg_color_rgba, dark |-> is_dark_mode,
                 bar_color |-> BarColor(config, layout, is_dark_mode),
                 icon |-> icon_svg,
                 status_text |-> battery_info.status_text,
                 percent_text |-> battery_info.percent,
                 time_text |-> battery_info.time_left_charging,
                 bar_width |-> battery_info.percent]>>
          [] layout = "layout2" ->
              <<[id |-> "bw-l2", bg |-> bg_color_rgba, dark |-> is_dark_mode,
                 bar_color |-> BarColor(config, layout, is_dark_mode),
                 icon |-> icon_svg,
                 percent_text |-> battery_info.percent,
                 segments |-> SegmentsHtml(battery_info.percent),
                 time_text |-> battery_info.time_left_long]>>
          [] layout = "layout3" ->
              <<[id |-> "bw-l3", bg |-> bg_color_rgba, dark |-> is_dark_mode,
                 bar_color |-> BarColor(config, layout, is_dark_mode),
                 icon |-> icon_svg,
                 status_text |-> battery_info.status_text,
                 percent_text |-> battery_info.percent,
                 radial |-> battery_info.percent,
                 time_text |-> battery_info.time_left_long]>>
          [] OTHER -> <<>>

\* add_battery_widget without its early return for a missing battery: the
\* lookup battery_info["icon_name"] on None raises
add_battery_widget_no_guard(st, battery, night, stats) ==
    LET config       == GetConfig(st)
        battery_info == get_battery_info(battery)
        is_dark_mode == IsDarkMode(config, night)
        bg           == BgColorRgba(config, is_dark_mode)
    IN  IF ~battery_info.present THEN [raised |-> TRUE, stats |-> stats]
        ELSE IF bg.raised THEN [raised |-> TRUE, stats |-> stats]
        ELSE [raised |-> FALSE,
              stats |-> stats \o WidgetHtml(config, battery_info, is_dark_mode, bg)]

\* add_battery_widget(deck_browser, content) with psutil.sensors_battery()
\* returning battery: the value of content.stats afterwards, and whether the
\* call ended in an exception (raised by hex_to_rgba, __init__.py:170)
add_battery_widget(st, battery, night, stats) ==
    LET config       == GetConfig(st)
        battery_info == get_battery_info(battery)
        is_dark_mode == IsDarkMode(config, night)
        bg           == BgColorRgba(config, is_dark_mode)
    IN  IF ~battery_info.present THEN [raised |-> FALSE, stats |-> stats]
        ELSE IF bg.raised THEN [raised |-> TRUE, stats |-> stats]
        ELSE [raised |-> FALSE,
              stats |-> stats \o WidgetHtml(config, battery_info, is_dark_mode, bg)]

\* dummy_add_battery_widget(*args, **kwargs): __init__.py:57-58
dummy_add_battery_widget(st, battery, night, stats) ==
    [raised |-> FALSE, stats |-> stats]


(***************************************************************************)
(* SettingsDialog (settings.py)                                            *)
(***************************************************************************)
\* the defaults the colour pickers are created with: settings.py:194-240
DialogDefault(key) ==
    CASE key = "layout1_light_fg" -> C_02FF68
      [] key = "layout1_dark_fg"  -> C_02FF68
      [] key = "layout2_light_fg" -> C_9ca3af
      [] key = "layout2_dark_fg"  -> C_6b7280
      [] key = "layout3_light_fg" -> C_22c55e
      [] key = "layout3_dark_fg"  -> C_4ade80
      [] key = "bg_light_color"   -> C_ffffff
      [] key = "bg_dark_color"    -> C_000000

\* QSlider() is created without a range (settings.py:246), so it has Qt's
\* default range 0..99; the spin box is given 0..100 (settings.py:248)
SliderMinimum == 0
SliderMaximum == 99
SpinMinimum == 0
SpinMaximum == 100

Clamp(v, lo, hi) == Max(lo, Min(hi, v))

\* QAbstractSlider.setValue / QSpinBox.setValue with the two valueChanged
\* signals connected to each other (settings.py:252-253): a value is bounded to
\* the widget's range, and valueChanged is emitted only when the value changes
RECURSIVE SliderSetValue(_, _), SpinSetValue(_, _)
SliderSetValue(w, v) ==
    LET nv == Clamp(v, SliderMinimum, SliderMaximum)
    IN  IF nv = w.slider THEN w
        ELSE SpinSetValue([w EXCEPT !.slider = nv], nv)
SpinSetValue(w, v) ==
    LET nv == Clamp(v, SpinMinimum, SpinMaximum)
    IN  IF nv = w.spinbox THEN w
        ELSE SliderSetValue([w EXCEPT !.spinbox = nv], nv)

\* the radio checked by settings.py:153-159
InitialLayoutRadio(config) ==
    LET current_layout == Get(config, "layout", "layout1")
    IN  IF current_layout = "layout2" THEN "layout2"
        ELSE IF current_layout = "layout3" THEN "layout3"
        ELSE "layout1"

\* the radio checked by settings.py:173-179
InitialThemeRadio(config) ==
    LET current_theme == Get(config, "theme", "auto")
    IN  IF current_theme \in {"auto", "light", "dark"} THEN current_theme
        ELSE "auto"

\* the opacity widgets after settings.py:246-255
InitialOpacity(config) ==
    SliderSetValue([slider |-> 0, spinbox |-> 0], Get(config, "bg_opacity", 100))

\* SettingsDialog.__init__: the dialog as it is shown.  Radio buttons of one
\* group box are auto-exclusive: checking one unchecks the others.
NewDialog(st) ==
    LET config == GetConfig(st)
    IN  [open |-> TRUE,
         result |-> "none",
         config |-> config,
         layout_checked |-> {InitialLayoutRadio(config)},
         theme_checked |-> {InitialThemeRadio(config)},
         edit |-> [k \in ColorKeys |-> Get(config, k, DialogDefault(k))],
         swatch |-> [k \in ColorKeys |-> Get(config, k, DialogDefault(k))],
         opacity |-> InitialOpacity(config),
         \* history, not program state
         opened_with |-> st,
         serial |-> 0,
         writes_before |-> 0,
         button |-> "none",
         writes |-> 0,
         infos |-> 0,
         steps |-> 0,
         opacity_touched |-> FALSE]

\* no dialog has been constructed yet (opened_with: the store at the start)
NoDialog ==
    [open |-> FALSE, result |-> "none", config |-> EmptyDict,
     layout_checked |-> {}, theme_checked |-> {},
     edit |-> [k \in ColorKeys |-> C_empty],
     swatch |-> [k \in ColorKeys |-> C_empty],
     opacity |-> [slider |-> 0, spinbox |-> 0],
     opened_with |-> NoConfig, serial |-> 0, writes_before |-> 0,
     button |-> "none", writes |-> 0, infos |-> 0, steps |-> 0,
     opacity_touched |-> FALSE]

\* update_color_from_text(line_edit, label, config_key) once the line edit
\* holds text: settings.py:399-411
update_color_from_text(d, config_key, text) ==
    IF QColorIsValid(text)
    THEN [d EXCEPT !.edit[config_key] = text,
                   !.swatch[config_key] = text,
                   !.config = Put(d.config, config_key, text)]
    ELSE LET old_color == Get(d.config, config_key, C_ffffff)
         IN  [d EXCEPT !.edit[config_key] = old_color,
                       !.swatch[config_key] = old_color]

\* pick_color(line_edit, label, config_key) with QColorDialog.getColor
\* returning color; an invalid colour (the dialog was cancelled) is C_empty,
\* and color.name() of a valid one is its "#rrggbb" text: settings.py:413-424
pick_color(d, config_key, color) ==
    IF QColorIsValid(color)
    THEN [d EXCEPT !.config = Put(d.config, config_key, color),
                   !.swatch[config_key] = color,
                   !.edit[config_key] = color]
    ELSE d

\* the layout and theme save_settings stores: settings.py:428-440
SavedLayout(d) ==
    IF "layout2" \in d.layout_checked THEN "layout2"
    ELSE IF "layout3" \in d.layout_checked THEN "layout3"
    ELSE "layout1"

\* SavedTheme with the light and dark branches exchanged
SavedThemeSwapped(d) ==
    IF "auto" \in d.theme_checked THEN "auto"
    ELSE IF "light" \in d.theme_checked THEN "dark"
    ELSE "light"

SavedTheme(d) ==
    IF "auto" \in d.theme_checked THEN "auto"
    ELSE IF "light" \in d.theme_checked THEN "light"
    ELSE "dark"

\* self.config as save_settings hands it to writeConfig: settings.py:428-442
SavedConfig(d) ==
    Put(Put(Put(d.config, "layout", SavedLayout(d)),
            "theme", SavedTheme(d)),
        "bg_opacity", d.opacity.slider)


(***************************************************************************)
(* Module-level code of __init__.py: path shim, import, registration       *)
(***************************************************************************)
P_win32   == <<"w","i","n","3","2">>
P_darwin  == <<"d","a","r","w","i","n">>
P_linux   == <<"l","i","n","u","x">>
P_linux2  == <<"l","i","n","u","x","2">>
P_cygwin  == <<"c","y","g","w","i","n">>
P_freebsd == <<"f","r","e","e","b","s","d","1","3">>

\* os.path.join(ADDON_FOLDER, "lib"): a folder is its sequence of components
ADDON_FOLDER == <<"addon">>
base_lib_folder == ADDON_FOLDER \o <<"lib">>

\* plat_folder of __init__.py:10-21; "None" when the platform is not recognised
PlatFolder(plat, maxsize64) ==
    IF StartsWith(plat, P_win32)
    THEN IF maxsize64 THEN "win64" ELSE "win32"
    ELSE IF StartsWith(plat, P_darwin) THEN "macos"
    ELSE IF StartsWith(plat, P_linux) THEN "linux"
    ELSE "None"

\* target_lib of __init__.py:26
TargetLib(plat_folder) == base_lib_folder \o <<plat_folder>>

\* sys.path after __init__.py:25-28
AddTargetLib(path, plat_folder) ==
    IF plat_folder # "None"
    THEN IF ~InSeq(TargetLib(plat_folder), path)
         THEN Insert0(path, TargetLib(plat_folder))
         ELSE path
    ELSE path

\* AddBaseLib without the test for a folder that is already on the path
AddBaseLibAlways(path) == Insert0(path, base_lib_folder)

\* sys.path after __init__.py:31-32
AddBaseLib(path) ==
    IF ~InSeq(base_lib_folder, path) THEN Insert0(path, base_lib_folder) ELSE path

\* sys.path after the whole shim, __init__.py:8-32
ShimPath(path, plat, maxsize64) ==
    AddBaseLib(AddTargetLib(path, PlatFolder(plat, maxsize64)))

\* the callables the add-on registers
RealAction  == [text |-> "Power Settings", slot |-> "open_settings"]
DummyAction == [text |-> "Power Settings (Unavailable)", slot |-> "dummy_open_settings"]

\* __init__.py:8-32
RunShim ==
    /\ pc = "shim"
    /\ sys_path' = ShimPath(sys_path, platform, is64)
    /\ pc' = "import"
    /\ UNCHANGED <<platform, is64, psutil_available, render_hooks, menu_actions,
                   warnings, stored, write_count, dlg, night_mode, render>>

\* what the except branch registers: __init__.py:61, 67-69
FallbackHooks(hooks) == Append(hooks, "dummy_add_battery_widget")
FallbackActions(actions) == Append(actions, DummyAction)

\* __init__.py:43-69: "import psutil" succeeds or raises ImportError
ImportPsutil ==
    /\ pc = "import"
    /\ \E ok \in BOOLEAN :
          /\ psutil_available' = ok
          /\ IF ok
             THEN UNCHANGED <<render_hooks, menu_actions, warnings>>
             ELSE /\ warnings' = warnings + 1
                  /\ render_hooks' = FallbackHooks(render_hooks)
                  /\ menu_actions' = FallbackActions(menu_actions)
    /\ pc' = "register"
    /\ UNCHANGED <<platform, is64, sys_path, stored, write_count, dlg,
                   night_mode, render>>

\* FinalHooks without the psutil_available test
FinalHooksUnguarded(hooks, available) == Append(hooks, "add_battery_widget")

\* what the final block registers when psutil_available: __init__.py:360-365
FinalHooks(hooks, available) ==
    IF available THEN Append(hooks, "add_battery_widget") ELSE hooks
FinalActions(actions, available) ==
    IF available THEN Append(actions, RealAction) ELSE actions

\* __init__.py:360-365
FinalRegistration ==
    /\ pc = "register"
    /\ render_hooks' = FinalHooks(render_hooks, psutil_available)
    /\ menu_actions' = FinalActions(menu_actions, psutil_available)
    /\ pc' = "loaded"
    /\ UNCHANGED <<platform, is64, sys_path, psutil_available, warnings, stored,
                   write_count, dlg, night_mode, render>>


(***************************************************************************)
(* The host calling into the add-on                                        *)
(***************************************************************************)
\* one registered deck_browser_will_render_content hook called on content
RunHook(hook, st, battery, night, stats) ==
    IF hook = "add_battery_widget"
    THEN add_battery_widget(st, battery, night, stats)
    ELSE dummy_add_battery_widget(st, battery, night, stats)

RECURSIVE RunHooks(_, _, _, _, _)
\* the hooks called in registration order; an exception ends the call
RunHooks(hooks, st, battery, night, stats) ==
    IF Len(hooks) = 0 THEN [raised |-> FALSE, stats |-> stats]
    ELSE LET r == RunHook(Head(hooks), st, battery, night, stats)
         IN  IF r.raised THEN r
             ELSE RunHooks(Tail(hooks), st, battery, night, r.stats)

NoRender == [done |-> FALSE]

\* what the deck browser has put into content.stats before the hooks run
HostStats == <<[id |-> "host-stats"]>>

\* the deck browser renders: every registered hook is called with a new
\* content object, and psutil.sensors_battery() returns one of readings
DeckBrowserRender(readings) ==
    /\ pc = "loaded"
    /\ ~dlg.open
    /\ \E battery \in readings :
          render' = [done |-> TRUE,
                     hooks |-> render_hooks,
                     config |-> GetConfig(stored),
                     night |-> night_mode,
                     battery |-> battery,
                     info |-> get_battery_info(battery),
                     before |-> HostStats,
                     out |-> RunHooks(render_hooks, stored, battery, night_mode,
                                      HostStats)]
    /\ UNCHANGED <<platform, is64, sys_path, pc, psutil_available, render_hooks,
                   menu_actions, warnings, stored, write_count, dlg, night_mode>>

\* the host switches between its light and dark theme
ToggleNightMode ==
    /\ pc = "loaded"
    /\ ~dlg.open
    /\ night_mode' = ~night_mode
    /\ UNCHANGED <<platform, is64, sys_path, pc, psutil_available, render_hooks,
                   menu_actions, warnings, stored, write_count, dlg, render>>

MaxDialogs == 1
MaxWarnings == 2

\* the user triggers an action of the Tools menu: open_settings
\* (__init__.py:353-356) or dummy_open_settings (__init__.py:64-65)
TriggerMenuAction ==
    /\ pc = "loaded"
    /\ ~dlg.open
    /\ \E i \in 1..Len(menu_actions) :
          IF menu_actions[i].slot = "open_settings"
          THEN /\ dlg.serial < MaxDialogs
               /\ dlg' = [NewDialog(stored) EXCEPT !.serial = dlg.serial + 1,
                                                   !.steps = dlg.steps,
                                                   !.writes_before = write_count]
               /\ render' = NoRender
               /\ UNCHANGED warnings
          ELSE /\ warnings < MaxWarnings
               /\ warnings' = warnings + 1
               /\ UNCHANGED <<dlg, render>>
    /\ UNCHANGED <<platform, is64, sys_path, pc, psutil_available, render_hooks,
                   menu_actions, stored, write_count, night_mode>>

(***************************************************************************)
(* The user working in the open dialog                                     *)
(***************************************************************************)
dialogFrame == <<platform, is64, sys_path, pc, psutil_available, render_hooks,
                 menu_actions, warnings, stored, write_count, night_mode, render>>

\* the number of things the user does in the dialogs of one run
MaxSteps == 2

ClickLayoutRadio ==
    /\ dlg.open
    /\ dlg.steps < MaxSteps
    /\ \E r \in {"layout1", "layout2", "layout3"} :
          dlg' = [dlg EXCEPT !.layout_checked = {r}, !.steps = dlg.steps + 1]
    /\ UNCHANGED dialogFrame

ClickThemeRadio ==
    /\ dlg.open
    /\ dlg.steps < MaxSteps
    /\ \E r \in {"auto", "light", "dark"} :
          dlg' = [dlg EXCEPT !.theme_checked = {r}, !.steps = dlg.steps + 1]
    /\ UNCHANGED dialogFrame

\* the user drags the slider to a position of its range
MoveSlider(positions) ==
    /\ dlg.open
    /\ dlg.steps < MaxSteps
    /\ \E v \in positions \cap (SliderMinimum..SliderMaximum) :
          dlg' = [dlg EXCEPT !.opacity = SliderSetValue(@, v),
                             !.opacity_touched = TRUE,
                             !.steps = dlg.steps + 1]
    /\ UNCHANGED dialogFrame

\* the user enters a value of the spin box's range
EditSpinBox(values) ==
    /\ dlg.open
    /\ dlg.steps < MaxSteps
    /\ \E v \in values \cap (SpinMinimum..SpinMaximum) :
          dlg' = [dlg EXCEPT !.opacity = SpinSetValue(@, v),
                             !.opacity_touched = TRUE,
                             !.steps = dlg.steps + 1]
    /\ UNCHANGED dialogFrame

\* texts a user types into a colour field, and colours chosen in QColorDialog
\* (C_empty: the colour dialog was cancelled)
TypedTexts == {C_f80, C_red, C_bad}
PickedColors == {C_0000ff, C_empty}

\* the user types text into the line edit of key and leaves it:
\* editingFinished calls update_color_from_text (settings.py:286-293)
EditColorText ==
    /\ dlg.open
    /\ dlg.steps < MaxSteps
    /\ \E k \in ColorKeys, t \in TypedTexts :
          dlg' = [update_color_from_text(dlg, k, t) EXCEPT !.steps = dlg.steps + 1]
    /\ UNCHANGED dialogFrame

\* the user clicks the swatch of key: pick_color (settings.py:276-283)
ClickSwatch ==
    /\ dlg.open
    /\ dlg.steps < MaxSteps
    /\ \E k \in ColorKeys, c \in PickedColors :
          dlg' = [pick_color(dlg, k, c) EXCEPT !.steps = dlg.steps + 1]
    /\ UNCHANGED dialogFrame

\* save_settings: the dialog afterwards and the configurations handed to
\* writeConfig, in order (settings.py:426-446)
save_settings(d) ==
    [dlg |-> [d EXCEPT !.config = SavedConfig(d),
                       !.writes = d.writes + 1,
                       !.infos = d.infos + 1,
                       !.open = FALSE,
                       !.result = "accepted"],
     written |-> <<SavedConfig(d)>>]

\* the Cancel button connected to save_settings instead of reject
reject_saves(d) == save_settings(d)

\* QDialog.reject, the slot of the Cancel button (settings.py:271)
reject(d) ==
    [dlg |-> [d EXCEPT !.open = FALSE, !.result = "rejected"],
     written |-> <<>>]

\* the store after the writeConfig calls of one handler
StoreAfter(st, written) ==
    IF Len(written) = 0 THEN st ELSE Config(written[Len(written)])

saveFrame == <<platform, is64, sys_path, pc, psutil_available, render_hooks,
               menu_actions, warnings, night_mode, render>>

\* the Save button: button_box.accepted -> save_settings (settings.py:270)
SaveButton ==
    /\ dlg.open
    /\ LET r == save_settings(dlg)
       IN  /\ dlg' = [r.dlg EXCEPT !.button = "save"]
           /\ stored' = StoreAfter(stored, r.written)
           /\ write_count' = write_count + Len(r.written)
    /\ UNCHANGED saveFrame

\* the Cancel button: button_box.rejected -> reject (settings.py:271)
CancelButton ==
    /\ dlg.open
    /\ LET r == reject(dlg)
       IN  /\ dlg' = [r.dlg EXCEPT !.button = "cancel"]
           /\ stored' = StoreAfter(stored, r.written)
           /\ write_count' = write_count + Len(r.written)
    /\ UNCHANGED saveFrame


(***************************************************************************)
(* Specifications                                                          *)
(***************************************************************************)
\* configurations the store can hold when the add-on starts: nothing, the
\* result of an earlier Save, and hand-edited ones (the host lets the user edit
\* the add-on's configuration as text)
StoreA == ("layout" :> "layout2") @@ ("theme" :> "dark") @@ ("bg_opacity" :> 40)
          @@ ("layout2_dark_fg" :> C_ff0000) @@ ("bg_dark_color" :> C_f80)
StoreC == ("layout" :> "layout9") @@ ("theme" :> "sepia")
InitialStores == {NoConfig, Config(StoreA), Config(StoreC)}

\* sensor readings of the main specification
SensorSample ==
    {NoBattery,
     Battery(55 * PercentScale, "True", Secs(5400)),
     Battery(11 * PercentScale, "False", NoSecs)}

SliderSample == {0, 99}
SpinSample == {100}

\* The add-on from its load on one machine to the user's sessions with the
\* deck browser and the settings dialog.
Init ==
    /\ platform = P_linux
    /\ is64 = TRUE
    /\ sys_path = << <<"site-packages">> >>
    /\ pc = "shim"
    /\ psutil_available = FALSE
    /\ render_hooks = <<>>
    /\ menu_actions = <<>>
    /\ warnings = 0
    /\ stored \in InitialStores
    /\ write_count = 0
    /\ dlg = [NoDialog EXCEPT !.opened_with = stored]
    /\ night_mode = FALSE
    /\ render = NoRender

Next ==
    \/ RunShim
    \/ ImportPsutil
    \/ FinalRegistration
    \/ DeckBrowserRender(SensorSample)
    \/ TriggerMenuAction
    \/ ClickLayoutRadio
    \/ ClickThemeRadio
    \/ MoveSlider(SliderSample)
    \/ EditSpinBox(SpinSample)
    \/ EditColorText
    \/ ClickSwatch
    \/ SaveButton
    \/ CancelButton

Spec == Init /\ [][Next]_vars

\* The module-level code on every platform and search path.
Platforms == {P_win32, P_darwin, P_linux, P_linux2, P_cygwin, P_freebsd}
PathEntries == {base_lib_folder, TargetLib("win64"), TargetLib("win32"),
                TargetLib("macos"), TargetLib("linux"),
                <<"site-packages">>, <<"stdlib">>}
MaxPathLen == 2

RECURSIVE SeqsUpTo(_, _)
\* the sequences over S of length at most n
SeqsUpTo(S, n) ==
    IF n = 0 THEN {<<>>}
    ELSE LET shorter == SeqsUpTo(S, n - 1)
         IN  shorter \cup {Append(q, x) : q \in shorter, x \in S}

InitShim ==
    /\ platform \in Platforms
    /\ is64 \in BOOLEAN
    /\ sys_path \in SeqsUpTo(PathEntries, MaxPathLen)
    /\ pc = "shim"
    /\ psutil_available = FALSE
    /\ render_hooks = <<>>
    /\ menu_actions = <<>>
    /\ warnings = 0
    /\ stored = NoConfig
    /\ write_count = 0
    /\ dlg = NoDialog
    /\ night_mode = FALSE
    /\ render = NoRender

NextShim ==
    \/ RunShim
    \/ ImportPsutil
    \/ FinalRegistration

SpecShim == InitShim /\ [][NextShim]_vars

\* the state after a load in which psutil was imported
LoadedOK ==
    /\ platform = P_linux
    /\ is64 = TRUE
    /\ sys_path = ShimPath(<< <<"site-packages">> >>, P_linux, TRUE)
    /\ pc = "loaded"
    /\ psutil_available = TRUE
    /\ render_hooks = FinalHooks(<<>>, TRUE)
    /\ menu_actions = FinalActions(<<>>, TRUE)
    /\ warnings = 0
    /\ write_count = 0
    /\ render = NoRender

\* The opacity controls of the dialog over their whole range.
OpacityStores ==
    {NoConfig} \cup {Config("bg_opacity" :> v) : v \in 0..100}

InitOpacity ==
    /\ LoadedOK
    /\ stored \in OpacityStores
    /\ dlg = [NoDialog EXCEPT !.opened_with = stored]
    /\ night_mode = FALSE

NextOpacity ==
    \/ TriggerMenuAction
    \/ MoveSlider(SliderMinimum..SliderMaximum)
    \/ EditSpinBox(SpinMinimum..SpinMaximum)
    \/ SaveButton
    \/ CancelButton

SpecOpacity == InitOpacity /\ [][NextOpacity]_vars

\* The widget rendered for every sensor reading: every percentage from 0 to
\* 100 in steps of 1/PercentScale, every plugged state, and seconds-left values
\* on both sides of each comparison the code makes.
SecsInputs == {NoSecs, Secs(0 - 2), Secs(0 - 1), Secs(0), Secs(1), Secs(59),
               Secs(60), Secs(5400), Secs(7199)}
AllReadings ==
    {NoBattery} \cup
    {Battery(pu, plugged, secs) :
        pu \in 0..(100 * PercentScale), plugged \in TriState, secs \in SecsInputs}

LayoutStores ==
    {NoConfig, Config("layout" :> "layout2"), Config("layout" :> "layout3")}

InitBattery ==
    /\ LoadedOK
    /\ stored \in LayoutStores
    /\ dlg = [NoDialog EXCEPT !.opened_with = stored]
    /\ night_mode = FALSE

\* add_battery_widget keeps no state of its own, so one render per run, with
\* any reading, under either host theme, covers it
NextBattery ==
    \/ ~render.done /\ DeckBrowserRender(AllReadings)
    \/ ~render.done /\ ToggleNightMode

SpecBattery == InitBattery /\ [][NextBattery]_vars


(***************************************************************************)
(* Properties                                                              *)
(***************************************************************************)
\* the render last made was made by the real hook alone
RealRender == render.done /\ render.hooks = <<"add_battery_widget">>

RenderLayout == Get(render.config, "layout", "layout1")

ContainerId(layout) ==
    CASE layout = "layout1" -> "bw-l1"
      [] layout = "layout2" -> "bw-l2"
      [] layout = "layout3" -> "bw-l3"

\* C1: with a battery and layout1, layout2 or layout3 configured (or no layout
\* key), add_battery_widget appends exactly one block to content.stats: the
\* old value stays as a prefix, the block is the one of the configured layout
\* and it shows the percent field of the record of get_battery_info.
C1_AppendsOneBlock ==
    (RealRender /\ render.battery.present
       /\ RenderLayout \in {"layout1", "layout2", "layout3"})
    => /\ ~render.out.raised
       /\ Len(render.out.stats) = Len(render.before) + 1
       /\ SubSeq(render.out.stats, 1, Len(render.before)) = render.before
       /\ render.out.stats[Len(render.out.stats)].id = ContainerId(RenderLayout)
       /\ render.out.stats[Len(render.out.stats)].percent_text = render.info.percent

\* C2: without a battery get_battery_info returns None and add_battery_widget
\* leaves content.stats as it was, whatever the configuration holds.
C2_NoBatteryNoChange ==
    (RealRender /\ ~render.battery.present)
    => /\ ~render.info.present
       /\ ~render.out.raised
       /\ render.out.stats = render.before

\* a render without a battery under a configuration whose background colour
\* hex_to_rgba cannot parse
C2_Witness ==
    /\ RealRender
    /\ ~render.battery.present
    /\ "bg_light_color" \in DOMAIN render.config
    /\ render.config["bg_light_color"] = C_red
    /\ render.out.stats = render.before


\* C3: save_settings writes the configuration once and accepts the dialog; the
\* written layout and theme are those of the checked radio buttons and the
\* written bg_opacity is the slider's value.
C3_SaveWritesChecked ==
    (dlg.button = "save")
    => /\ dlg.writes = 1
       /\ write_count = dlg.writes_before + 1
       /\ dlg.result = "accepted"
       /\ ~dlg.open
       /\ ~stored.none
       /\ {"layout", "theme", "bg_opacity"} \subseteq DOMAIN stored.cfg
       /\ dlg.layout_checked = {stored.cfg["layout"]}
       /\ stored.cfg["layout"] \in {"layout1", "layout2", "layout3"}
       /\ dlg.theme_checked = {stored.cfg["theme"]}
       /\ stored.cfg["theme"] \in {"auto", "light", "dark"}
       /\ stored.cfg["bg_opacity"] = dlg.opacity.slider

\* a Save after the user changed the layout and the theme
C3_Witness ==
    /\ dlg.button = "save"
    /\ dlg.steps = 2
    /\ stored.cfg["layout"] = "layout3"
    /\ stored.cfg["theme"] = "light"
    /\ Get(GetConfig(dlg.opened_with), "layout", "layout1") # "layout3"
    /\ Get(GetConfig(dlg.opened_with), "theme", "auto") # "light"

\* C4: after the shim on a recognised platform the platform folder is the
\* first entry of sys.path, ahead of the base lib folder and all older entries.
C4_PlatformFolderFirst ==
    (pc # "shim" /\ PlatFolder(platform, is64) # "None")
    => /\ Len(sys_path) >= 1
       /\ sys_path[1] = TargetLib(PlatFolder(platform, is64))

\* C5: a load registers exactly one render hook and one menu action: the real
\* ones when psutil imports, the do-nothing ones when it does not, never both;
\* after a failed import no render changes content.stats and no settings
\* dialog is opened.
C5_OneHookOneAction ==
    /\ ~(InSeq("add_battery_widget", render_hooks)
         /\ InSeq("dummy_add_battery_widget", render_hooks))
    /\ ~(InSeq(RealAction, menu_actions) /\ InSeq(DummyAction, menu_actions))
    /\ (pc = "loaded" /\ psutil_available)
       => /\ render_hooks = <<"add_battery_widget">>
          /\ menu_actions = <<RealAction>>
    /\ (pc = "loaded" /\ ~psutil_available)
       => /\ render_hooks = <<"dummy_add_battery_widget">>
          /\ menu_actions = <<DummyAction>>
          /\ render.done => (render.out.stats = render.before /\ ~render.out.raised)
          /\ dlg.serial = 0
          /\ ~dlg.open

\* after a failed import: a render with a battery and a use of the menu action
C5_Witness ==
    /\ pc = "loaded"
    /\ ~psutil_available
    /\ render.done
    /\ render.battery.present
    /\ warnings = 2

\* C6: the store changes only through save_settings: while the dialog is open
\* and after Cancel the store is what it was when the dialog was opened and
\* writeConfig has not been called; every writeConfig call is one Save.
C6_OnlySaveWrites ==
    /\ write_count = dlg.writes_before + (IF dlg.button = "save" THEN 1 ELSE 0)
    /\ (dlg.button # "save") => stored = dlg.opened_with

\* Cancel after a valid and an invalid colour edit
C6_Witness ==
    /\ dlg.button = "cancel"
    /\ dlg.steps = 2
    /\ dlg.config # GetConfig(dlg.opened_with)
    /\ \E k \in ColorKeys : dlg.edit[k] = C_red
    /\ \E k \in ColorKeys :
          /\ dlg.edit[k] = C_ffffff
          /\ Get(GetConfig(dlg.opened_with), k, DialogDefault(k)) # C_ffffff

\* C7: background opacity round-trips: the dialog opens with the stored
\* bg_opacity (100 when absent) in slider and spin box, and Save without
\* touching the opacity controls writes that value back.
C7_OpacityRoundTrip ==
    LET v == Get(GetConfig(dlg.opened_with), "bg_opacity", 100)
    IN  /\ (dlg.serial > 0 /\ ~dlg.opacity_touched)
           => (dlg.opacity.slider = v /\ dlg.opacity.spinbox = v)
        /\ (dlg.button = "save" /\ ~dlg.opacity_touched)
           => stored.cfg["bg_opacity"] = v

\* the layout2 block of the render last made
RenderedLayout2 ==
    /\ RealRender
    /\ render.battery.present
    /\ ~render.out.raised
    /\ RenderLayout = "layout2"

LastBlock == render.out.stats[Len(render.out.stats)]

RECURSIVE SumWhole(_), SumUlps(_)
SumWhole(segs) == IF Len(segs) = 0 THEN 0 ELSE Head(segs).whole + SumWhole(Tail(segs))
SumUlps(segs) == IF Len(segs) = 0 THEN 0 ELSE Head(segs).ulps + SumUlps(Tail(segs))

\* the shape of the five segments: full up to the percentage, at most one
\* partial segment, nothing after it
SegmentKinds(segs, p) ==
    /\ Len(segs) = 5
    /\ \A i \in 0..4 :
          /\ (p >= 20 * (i + 1)) => segs[i + 1].kind = "full"
          /\ (20 * i < p /\ p < 20 * (i + 1)) => segs[i + 1].kind = "partial"
          /\ (p <= 20 * i) => segs[i + 1].kind = "none"
    /\ Cardinality({i \in 1..5 : segs[i].kind = "partial"}) <= 1
    /\ \A i \in 1..5 : segs[i].kind = "partial" =>
          /\ \A j \in 1..(i - 1) : segs[j].kind = "full"
          /\ \A j \in (i + 1)..5 : segs[j].kind = "none"

\* C8 as stated: five segments; segment i is full from 20*(i+1), partial with
\* width ((percent - 20*i)/20)*100 between, empty up to 20*i; the five fill
\* widths sum to 5*percent.
C8_SegmentsExact ==
    RenderedLayout2 =>
        LET p == render.info.percent
            segs == LastBlock.segments
        IN  /\ SegmentKinds(segs, p)
            /\ \A i \in 0..4 :
                  /\ segs[i + 1].kind = "full" =>
                        (segs[i + 1].whole = 100 /\ segs[i + 1].ulps = 0)
                  /\ segs[i + 1].kind = "partial" =>
                        (segs[i + 1].whole = 5 * (p - 20 * i) /\ segs[i + 1].ulps = 0)
                  /\ segs[i + 1].kind = "none" => segs[i + 1].whole = 0
            /\ SumWhole(segs) = 5 * p
            /\ SumUlps(segs) = 0

\* C8 amended: the same, with the partial width as binary floating point
\* computes it: it is 5*(percent - 20*i) exactly, except that for
\* percent - 20*i = 11 it is the double next above 55; so the widths sum to
\* 5*percent exactly unless percent mod 20 is 11.
C8_SegmentsRounded ==
    RenderedLayout2 =>
        LET p == render.info.percent
            segs == LastBlock.segments
        IN  /\ SegmentKinds(segs, p)
            /\ \A i \in 0..4 :
                  /\ segs[i + 1].kind = "full" =>
                        (segs[i + 1].whole = 100 /\ segs[i + 1].ulps = 0)
                  /\ segs[i + 1].kind = "partial" =>
                        /\ segs[i + 1].whole = 5 * (p - 20 * i)
                        /\ segs[i + 1].ulps = (IF p - 20 * i = 11 THEN 1 ELSE 0)
                  /\ segs[i + 1].kind = "none" => segs[i + 1].whole = 0
            /\ SumWhole(segs) = 5 * p
            /\ SumUlps(segs) = (IF p % 20 = 11 THEN 1 ELSE 0)

\* 51 percent: two full segments, the third partial and one ulp above 55
C8_Witness ==
    /\ RenderedLayout2
    /\ render.info.percent = 51
    /\ LastBlock.segments[2].kind = "full"
    /\ LastBlock.segments[3].kind = "partial"
    /\ LastBlock.segments[3].ulps = 1
    /\ LastBlock.segments[4].kind = "none"

\* C9: plugged in: "Charging" and battery_bolt, at 100% too; not plugged in:
\* "On Battery", and battery_alert when the percentage is at most 20, battery
\* otherwise; the charging field is the sensor's plugged-in flag.
C9_StatusAndIcon ==
    (render.done /\ render.battery.present) =>
        LET b == render.battery
            info == render.info
        IN  /\ info.present
            /\ info.charging = b.power_plugged
            /\ (b.power_plugged = "True") =>
                  (info.status_text = "Charging" /\ info.icon_name = "battery_bolt")
            /\ (b.power_plugged # "True") =>
                  /\ info.status_text = "On Battery"
                  /\ (b.percentU <= 20 * PercentScale) => info.icon_name = "battery_alert"
                  /\ (b.percentU > 20 * PercentScale) => info.icon_name = "battery"

\* unplugged at exactly 20 percent
C9_Witness ==
    /\ render.done
    /\ render.battery.present
    /\ render.battery.power_plugged = "False"
    /\ render.battery.percentU = 20 * PercentScale
    /\ render.info.icon_name = "battery_alert"

\* C10: plugged in: a charge estimate ("hours for full charge" and a minutes
\* text with secs_left // 60) exactly when secs_left is positive and the
\* battery is not full, otherwise "Ready to go" and no minutes text; not
\* plugged in: "~hours left" exactly when secs_left is positive, otherwise
\* "No estimate", and never a minutes text.
C10_TimeTexts ==
    (render.done /\ render.battery.present) =>
        LET b == render.battery
            info == render.info
            positive == ~b.secsleft.none /\ b.secsleft.val >= 1
            full == b.percentU = 100 * PercentScale
        IN  /\ (b.power_plugged = "True" /\ positive /\ ~full) =>
                  /\ info.time_left_long.text = "hours for full charge"
                  /\ info.time_left_charging.text = "min left"
                  /\ info.time_left_charging.mins * 60 <= b.secsleft.val
                  /\ b.secsleft.val < (info.time_left_charging.mins + 1) * 60
            /\ (b.power_plugged = "True" /\ ~(positive /\ ~full)) =>
                  /\ info.time_left_long.text = "Ready to go"
                  /\ info.time_left_charging.text = ""
            /\ (b.power_plugged # "True") =>
                  /\ info.time_left_charging.text = ""
                  /\ positive => info.time_left_long.text = "~hours left"
                  /\ ~positive => info.time_left_long.text = "No estimate"

\* plugged in at 100 percent with a positive seconds-left value
C10_Witness ==
    /\ render.done
    /\ render.battery.present
    /\ render.battery.power_plugged = "True"
    /\ render.battery.percentU = 100 * PercentScale
    /\ render.battery.secsleft = Secs(5400)
    /\ render.info.time_left_long.text = "Ready to go"

\* C11: in every record get_battery_info returns, for readings from 0 to 100
\* percent with fractional values among them: the percent field is a whole
\* number from 0 to 100, is_fully_charged is true exactly when the percent
\* field is 100 and charging is true, and icon_name is "battery_alert" exactly
\* when charging is not true and the percent field is at most 20.
C11_FieldsConsistent ==
    (render.done /\ render.battery.present) =>
        LET info == render.info
        IN  /\ info.present
            /\ info.percent \in 0..100
            /\ (info.is_fully_charged = "True") <=>
                  (info.percent = 100 /\ info.charging = "True")
            /\ (info.icon_name = "battery_alert") <=>
                  (info.charging # "True" /\ info.percent <= 20)

(***************************************************************************)
(* Theme resolution: the widget rendered under every theme setting, every  *)
(* layout setting and either host theme, from a store in which each of the *)
(* eight colour keys holds a colour of its own, or from one with no colour *)
(* key at all.                                                             *)
(***************************************************************************)
ThemeSettings  == {"auto", "light", "dark", "sepia"}
LayoutSettings == {"layout1", "layout2", "layout3", "layout9"}

\* a colour for each key, different from every other key's and from the
\* default the widget uses for that key
OwnColors ==
    ("layout1_light_fg" :> C_0000ff) @@ ("layout1_dark_fg" :> C_ff0000) @@
    ("layout2_light_fg" :> C_9ca3af) @@ ("layout2_dark_fg" :> C_6b7280) @@
    ("layout3_light_fg" :> C_4ade80) @@ ("layout3_dark_fg" :> C_22c55e) @@
    ("bg_light_color" :> C_c084fc) @@ ("bg_dark_color" :> C_a855f7)

ThemeStores ==
    {NoConfig} \cup
    {Config(t @@ l @@ c) :
        t \in {EmptyDict} \cup {("theme" :> x) : x \in ThemeSettings},
        l \in {EmptyDict} \cup {("layout" :> x) : x \in LayoutSettings},
        c \in {EmptyDict, OwnColors, ("bg_opacity" :> 40)}}

InitTheme ==
    /\ LoadedOK
    /\ stored \in ThemeStores
    /\ dlg = [NoDialog EXCEPT !.opened_with = stored]
    /\ night_mode \in BOOLEAN

NextTheme ==
    \/ DeckBrowserRender(SensorSample)
    \/ ToggleNightMode

SpecTheme == InitTheme /\ [][NextTheme]_vars

\* the default of each colour key in add_battery_widget
WidgetDefault ==
    ("layout1_light_fg" :> C_02FF68) @@ ("layout1_dark_fg" :> C_02FF68) @@
    ("layout2_light_fg" :> C_a855f7) @@ ("layout2_dark_fg" :> C_c084fc) @@
    ("layout3_light_fg" :> C_22c55e) @@ ("layout3_dark_fg" :> C_4ade80) @@
    ("bg_light_color" :> C_ffffff) @@ ("bg_dark_color" :> C_000000)

\* the colour the configuration of the last render gives for a key
RenderColor(key) == Get(render.config, key, WidgetDefault[key])

\* the bar colour key of a layout in a mode
FgKey(layout, dark) ==
    CASE layout = "layout1" -> IF dark THEN "layout1_dark_fg" ELSE "layout1_light_fg"
      [] layout = "layout2" -> IF dark THEN "layout2_dark_fg" ELSE "layout2_light_fg"
      [] layout = "layout3" -> IF dark THEN "layout3_dark_fg" ELSE "layout3_light_fg"

\* the render last made appended a battery block
BlockRendered ==
    /\ RealRender
    /\ ~render.out.raised
    /\ Len(render.out.stats) = Len(render.before) + 1

\* C12: a rendered widget is in dark mode exactly when theme is "dark", or
\* theme is neither "light" nor "dark" (absent and "auto" included) and the
\* host's night mode is on; in dark mode its background is bg_dark_color and
\* its bar the configured layout's *_dark_fg, in light mode bg_light_color and
\* *_light_fg (a key that is absent gives the widget's default for that key).
C12_ThemeResolution ==
    BlockRendered =>
        LET theme == Get(render.config, "theme", "None")
            dark  == \/ theme = "dark"
                     \/ theme \notin {"light", "dark"} /\ render.night
            bgKey == IF dark THEN "bg_dark_color" ELSE "bg_light_color"
        IN  /\ LastBlock.dark = dark
            /\ LastBlock.bg = hex_to_rgba(RenderColor(bgKey),
                                          Get(render.config, "bg_opacity", 100))
            /\ LastBlock.bar_color = RenderColor(FgKey(RenderLayout, dark))

\* theme "light" under the host's night mode, every key holding its own
\* colour: the widget is light and takes the light colours of layout3
C12_Witness ==
    /\ BlockRendered
    /\ render.night
    /\ Get(render.config, "theme", "None") = "light"
    /\ RenderLayout = "layout3"
    /\ "layout3_dark_fg" \in DOMAIN render.config
    /\ ~LastBlock.dark
    /\ LastBlock.bar_color = C_4ade80
    /\ LastBlock.bg.r = 192

\* the step is editingFinished on the colour field of key k holding text t
EditedColorText(k, t) ==
    /\ dlg.open
    /\ dlg.steps < MaxSteps
    /\ dlg' = [update_color_from_text(dlg, k, t) EXCEPT !.steps = dlg.steps + 1]

\* C13: when the text of a colour field is not a valid colour at
\* editingFinished, the dialog's configuration is unchanged and both the text
\* field and the swatch show again the colour the field showed before the
\* text was entered.
C13_InvalidTextReverts ==
    [][\A k \in ColorKeys, t \in TypedTexts :
          (EditedColorText(k, t) /\ ~QColorIsValid(t)) =>
              /\ dlg'.config = dlg.config
              /\ dlg'.edit[k] = dlg.edit[k]
              /\ dlg'.swatch[k] = dlg.swatch[k]]_vars

\* the platform folder the claim names for a platform
ClaimedFolder(plat, maxsize64) ==
    CASE plat = P_win32 /\ maxsize64  -> "win64"
      [] plat = P_win32 /\ ~maxsize64 -> "win32"
      [] plat = P_darwin              -> "macos"
      [] plat \in {P_linux, P_linux2} -> "linux"
      [] OTHER                        -> "None"

\* new is old with k folders of added put in front, none of which was in old,
\* and no folder twice
Prepended(old, new, added) ==
    \E k \in 0..Cardinality(added) :
        /\ Len(new) = Len(old) + k
        /\ SubSeq(new, k + 1, Len(new)) = old
        /\ \A i \in 1..k : new[i] \in added /\ ~InSeq(new[i], old)
        /\ \A i, j \in 1..k : new[i] = new[j] => i = j

\* C14: the shim picks the platform folder of the platform (win64, win32,
\* macos, linux, or none); after it the base lib folder is on sys.path, and so
\* is the platform folder on a recognised platform; it only puts folders in
\* front that were not on the path, each once, so the old entries keep their
\* order; and running it again on the result changes nothing.
C14_ShimIdempotent ==
    [][(pc = "shim" /\ pc' # "shim") =>
          LET pf    == PlatFolder(platform, is64)
              added == {base_lib_folder} \cup
                       (IF pf = "None" THEN {} ELSE {TargetLib(pf)})
          IN  /\ pf = ClaimedFolder(platform, is64)
              /\ InSeq(base_lib_folder, sys_path')
              /\ pf # "None" => InSeq(TargetLib(pf), sys_path')
              /\ Prepended(sys_path, sys_path', added)
              /\ ShimPath(sys_path', platform, is64) = sys_path']_vars

\* the shim has run on 32-bit Windows with the base lib folder already on the
\* path: only the win32 folder was put in front
C14_Witness ==
    /\ pc # "shim"
    /\ platform = P_win32
    /\ ~is64
    /\ sys_path = <<TargetLib("win32"), <<"stdlib">>, base_lib_folder>>

====
